---- MODULE Spec2Model ----
(***************************************************************************)
(* A model of the spreadsheet-to-MARC converter of src/app.py: the value   *)
(* normaliser (norm, format_date), the grouping key, the row accumulator,  *)
(* the deduplicator and the line serialiser of upload_file.                *)
(*                                                                         *)
(* Text is modelled character by character: a Python str is a sequence of  *)
(* one-character strings.  Three characters outside ASCII are given names: *)
(* NBSP (U+00A0), EMSP (U+2003) and FWBAR (U+FF5C).  NUL and VT name the   *)
(* control characters \0 and \x0B.                                         *)
(***************************************************************************)
EXTENDS Integers, Sequences, FiniteSets, TLC

\* ------------------------------------------------------------------ text

NBSP == "nbsp"
EMSP == "emsp"
FWBAR == "fwbar"

\* src/app.py:26
MULTI_SPLIT == "|"

\* The argument of every .strip(" \t\n\r\0\x0B") of the source.
StripChars == {" ", "\t", "\n", "\r", "NUL", "VT"}

\* The characters Python's str.isspace() accepts (str.split(), str.strip()).
Whitespace == {" ", "\t", "\n", "\r", "VT", "\f", NBSP, EMSP}

Digits == <<"0", "1", "2", "3", "4", "5", "6", "7", "8", "9">>

UpperLetters ==
  <<"A", "B", "C", "D", "E", "F", "G", "H", "I", "J", "K", "L", "M",
    "N", "O", "P", "Q", "R", "S", "T", "U", "V", "W", "X", "Y", "Z">>

LowerLetters ==
  <<"a", "b", "c", "d", "e", "f", "g", "h", "i", "j", "k", "l", "m",
    "n", "o", "p", "q", "r", "s", "t", "u", "v", "w", "x", "y", "z">>

Range(s) == {s[i] : i \in 1..Len(s)}

IsDigit(c) == c \in Range(Digits)

DigitVal(c) == (CHOOSE i \in 1..10 : Digits[i] = c) - 1

\* str.lower() of one character.
LowerChar(c) ==
  IF c \in Range(UpperLetters)
  THEN LowerLetters[CHOOSE i \in 1..26 : UpperLetters[i] = c]
  ELSE c

Lower(s) == [i \in 1..Len(s) |-> LowerChar(s[i])]

\* unicodedata.normalize('NFKC', .) of one character of the alphabet.
NFKCChar(c) ==
  CASE c = NBSP -> " "
    [] c = EMSP -> " "
    [] c = FWBAR -> "|"
    [] OTHER -> c

NFKC(s) == [i \in 1..Len(s) |-> NFKCChar(s[i])]

RECURSIVE LStrip(_, _)
LStrip(s, cs) ==
  IF s # <<>> /\ Head(s) \in cs THEN LStrip(Tail(s), cs) ELSE s

RECURSIVE RStrip(_, _)
RStrip(s, cs) ==
  IF s # <<>> /\ s[Len(s)] \in cs
  THEN RStrip(SubSeq(s, 1, Len(s) - 1), cs)
  ELSE s

\* str.strip(chars)
Strip(s, cs) == RStrip(LStrip(s, cs), cs)

\* str.replace('\xa0', ' ')
ReplaceNbsp(s) == [i \in 1..Len(s) |-> IF s[i] = NBSP THEN " " ELSE s[i]]

\* x.strip(" \t\n\r\0\x0B").replace('\xa0', ' ')
Clean(s) == ReplaceNbsp(Strip(s, StripChars))

\* The least index of character c in s, 0 when c does not occur.
IndexOf(s, c) ==
  IF \E i \in 1..Len(s) : s[i] = c
  THEN CHOOSE i \in 1..Len(s) : s[i] = c /\ \A j \in 1..(i - 1) : s[j] # c
  ELSE 0

\* str.split(sep) for a one-character separator.
RECURSIVE Split(_, _)
Split(s, sep) ==
  LET i == IndexOf(s, sep)
  IN IF i = 0
     THEN <<s>>
     ELSE <<SubSeq(s, 1, i - 1)>> \o Split(SubSeq(s, i + 1, Len(s)), sep)

\* The length of the longest prefix of s that holds no whitespace.
RECURSIVE WordLen(_)
WordLen(s) ==
  IF s = <<>> \/ Head(s) \in Whitespace THEN 0 ELSE 1 + WordLen(Tail(s))

\* str.split() without an argument: the maximal runs of non-whitespace.
RECURSIVE Words(_)
Words(s) ==
  LET t == LStrip(s, Whitespace)
      n == WordLen(t)
  IN IF t = <<>>
     THEN <<>>
     ELSE <<SubSeq(t, 1, n)>> \o Words(SubSeq(t, n + 1, Len(t)))

\* sep.join(parts)
RECURSIVE Join(_, _)
Join(parts, sep) ==
  IF parts = <<>> THEN <<>>
  ELSE IF Len(parts) = 1 THEN parts[1]
  ELSE parts[1] \o sep \o Join(Tail(parts), sep)

\* ----------------------------------------------------------- cell values

(***************************************************************************)
(* A cell's raw value: None, text, a number or a date/time.  s is what     *)
(* str() gives (for a date/time: what strftime('%Y-%m-%d') gives).         *)
(***************************************************************************)
None == [t |-> "none", s |-> <<>>]
Text(s) == [t |-> "str", s |-> s]
Number(s) == [t |-> "num", s |-> s]
DateTime(s) == [t |-> "date", s |-> s]

\* Python's truth value of a cell: None, '' and 0 are false.
Truthy(v) ==
  CASE v.t = "none" -> FALSE
    [] v.t = "str" -> v.s # <<>>
    [] v.t = "num" -> v.s # <<"0">>
    [] OTHER -> TRUE

\* --------------------------------------------------------------- helpers

\* src/app.py:29-34
norm(v) ==
  IF v.t = "none" THEN <<>>
  ELSE Join(Words(Lower(NFKC(Clean(v.s)))), <<" ">>)

\* The number a run of digits denotes.
RECURSIVE DigitsVal(_)
DigitsVal(s) ==
  IF s = <<>> THEN 0
  ELSE 10 * DigitsVal(SubSeq(s, 1, Len(s) - 1)) + DigitVal(s[Len(s)])

AllDigits(s) == \A i \in 1..Len(s) : IsDigit(s[i])

\* re.match(r'\d{4}-\d{2}-\d{2}( \d{2}:\d{2}:\d{2})?', s): a prefix match.
DateLike(s) ==
  /\ Len(s) >= 10
  /\ \A i \in {1, 2, 3, 4, 6, 7, 9, 10} : IsDigit(s[i])
  /\ s[5] = "-"
  /\ s[8] = "-"

DaysInMonth(y, m) ==
  IF m \in {4, 6, 9, 11} THEN 30
  ELSE IF m = 2
       THEN (IF (y % 4 = 0 /\ y % 100 # 0) \/ y % 400 = 0 THEN 29 ELSE 28)
       ELSE 31

\* Whether the first ten characters of a DateLike text name a calendar day.
ValidDay(s) ==
  LET y == DigitsVal(SubSeq(s, 1, 4))
      m == DigitsVal(SubSeq(s, 6, 7))
      d == DigitsVal(SubSeq(s, 9, 10))
  IN y >= 1 /\ m \in 1..12 /\ d >= 1 /\ d <= DaysInMonth(y, m)

\* Whether t is whitespace followed by H:M:S, as ' %H:%M:%S' accepts it.
ValidTime(t) ==
  LET u == LStrip(t, Whitespace)
      f == Split(u, ":")
  IN /\ Len(u) < Len(t)
     /\ Len(f) = 3
     /\ \A i \in 1..3 : Len(f[i]) \in 1..2 /\ AllDigits(f[i])
     /\ DigitsVal(f[1]) < 24
     /\ DigitsVal(f[2]) < 60
     /\ DigitsVal(f[3]) < 60

\* datetime.strptime of a DateLike text succeeds (no ValueError).
Parses(s) ==
  IF " " \in Range(s)
  THEN ValidDay(s) /\ ValidTime(SubSeq(s, 11, Len(s)))
  ELSE Len(s) = 10 /\ ValidDay(s)

\* src/app.py:43-56, on the text str(val); years from 1000 on.
format_text(s) ==
  LET val_str == Clean(s)
  IN IF val_str = <<>> \/ Lower(val_str) = <<"n", "o", "n", "e">>
     THEN <<>>
     ELSE IF DateLike(val_str) /\ Parses(val_str)
          THEN SubSeq(val_str, 1, 10)
          ELSE val_str

\* src/app.py:36-56
format_date(val) ==
  CASE val.t = "none" -> <<>>
    [] val.t = "date" -> val.s
    [] OTHER -> format_text(val.s)

\* str(val) of a cell that is not None.
PyStr(v) ==
  IF v.t = "date"
  THEN v.s \o <<" ", "0", "0", ":", "0", "0", ":", "0", "0">>
  ELSE v.s

\* The decimal digits of a natural number (str(n), f"{n}").
RECURSIVE IntStr(_)
IntStr(n) ==
  IF n < 10 THEN <<Digits[n + 1]>> ELSE IntStr(n \div 10) \o <<Digits[(n % 10) + 1]>>

SetMax(S) == CHOOSE m \in S : \A o \in S : o <= m

\* first_nonempty with the later row winning.
first_nonempty_last(c, v) ==
  LET fv == IF v.t # "none" THEN Text(format_date(v)) ELSE None
  IN IF fv.t # "none" /\ fv.s # <<>> THEN fv ELSE c

\* src/app.py:102-108; c and the result are None or text.
first_nonempty(c, v) ==
  LET fv == IF v.t # "none" THEN Text(format_date(v)) ELSE None
  IN IF c.t # "none" /\ c.s # <<>> THEN c
     ELSE IF fv.t # "none" /\ fv.s # <<>> THEN fv
     ELSE c

\* src/app.py:117-122
is_row_empty(row) ==
  \A i \in 1..Len(row) :
    (IF row[i].t # "none" THEN format_date(row[i]) ELSE <<>>) = <<>>

\* ---------------------------------------------------------------- config

\* A field identifier such as '245$a'.
Field(tag, code) == tag \o <<"$", code>>

F020a == Field(<<"0", "2", "0">>, "a")
F020c == Field(<<"0", "2", "0">>, "c")
F041a == Field(<<"0", "4", "1">>, "a")
F245a == Field(<<"2", "4", "5">>, "a")
F245b == Field(<<"2", "4", "5">>, "b")
F650a == Field(<<"6", "5", "0">>, "a")
F650x == Field(<<"6", "5", "0">>, "x")
F700a == Field(<<"7", "0", "0">>, "a")
F710a == Field(<<"7", "1", "0">>, "a")

(***************************************************************************)
(* The key fields of src/app.py:21-25 that the model carries, in the       *)
(* source's order.  The scalar fields left out (040, 082, 100, ...) are    *)
(* handled by the source exactly as 041$a, 245$a and 245$b are.            *)
(***************************************************************************)
BIB_KEYS == <<F020a, F020c, F041a, F245a, F245b, F650a, F650x, F700a, F710a>>

\* src/app.py:212
MultiFields == {F650a, F700a, F710a}

\* The non-repeatable fields of src/app.py:288-321 that the model carries.
ScalarFields == {F041a, F245a, F245b}

\* src/app.py:369-388: the tags rendered from scalars, subfields in order.
FieldTable ==
  <<[tag |-> <<"0", "4", "1">>, codes |-> <<"a">>],
    [tag |-> <<"2", "4", "5">>, codes |-> <<"a", "b">>]>>

\* src/app.py:214
EMPTY_MARK == <<"_", "_", "E", "M", "P", "T", "Y", "_", "_">>

\* ---------------------------------------------------------------- headers

\* src/app.py:155: the header cell as text.
RawHeader(cell) == IF cell.t # "none" THEN PyStr(cell) ELSE <<>>

\* src/app.py:151-159: column -> cleaned header; <<>> where the dict has no entry.
ReadHeaders(first_row) ==
  [c \in 1..Len(first_row) |-> Clean(RawHeader(first_row[c]))]

AlNum ==
  Range(UpperLetters) \cup Range(LowerLetters) \cup Range(Digits)

\* src/app.py:166: re.match(r'^952\$[A-Za-z0-9]$', raw); $ also matches before a final newline.
HoldingMatch(raw) ==
  /\ Len(raw) = 5 \/ (Len(raw) = 6 /\ raw[6] = "\n")
  /\ SubSeq(raw, 1, 4) = <<"9", "5", "2", "$">>
  /\ raw[5] \in AlNum

\* src/app.py:163-169
RECURSIVE HoldingColsFrom(_, _)
HoldingColsFrom(first_row, c) ==
  IF c > Len(first_row) THEN <<>>
  ELSE (IF HoldingMatch(RawHeader(first_row[c]))
        THEN <<[col |-> c, code |-> RawHeader(first_row[c])[5]]>>
        ELSE <<>>) \o HoldingColsFrom(first_row, c + 1)

HoldingCols(first_row) == HoldingColsFrom(first_row, 1)

\* ------------------------------------------------------------ accumulator

\* src/app.py:186, 194: row[col - 1] if col - 1 < len(row) else ''
RowCell(row, col) == IF col <= Len(row) THEN row[col] ELSE Text(<<>>)

\* src/app.py:184-187 with row_data.get(fn, default): the last column named fn wins.
RowGet(hdrs, row, fn, default) ==
  LET cols == {c \in 1..Len(hdrs) : hdrs[c] = fn}
  IN IF cols = {} THEN default ELSE RowCell(row, SetMax(cols))

\* src/app.py:191-197 (and 201-205): the (code, value) pairs of one row.
RECURSIVE HoldingPairs(_, _)
HoldingPairs(hcs, row) ==
  IF hcs = <<>> THEN <<>>
  ELSE LET val == format_date(RowCell(row, Head(hcs).col))
       IN (IF val # <<>>
           THEN <<[code |-> Head(hcs).code, val |-> val]>>
           ELSE <<>>) \o HoldingPairs(Tail(hcs), row)

(***************************************************************************)
(* src/app.py:190-205.  direct is the row as sheet.cell() reads it; the    *)
(* workbook is one and the same, so it is the row the stream gave.         *)
(***************************************************************************)
RowPairs(hcs, row, is_last_row, direct) ==
  LET pairs == HoldingPairs(hcs, row)
  IN IF is_last_row /\ pairs = <<>> THEN HoldingPairs(hcs, direct) ELSE pairs

\* x.strip(" \t\n\r\0\x0B").replace('\xa0', ' ') for x in v.split(MULTI_SPLIT)
CleanTokens(v) ==
  LET toks == Split(v, MULTI_SPLIT)
  IN [i \in 1..Len(toks) |-> Clean(toks[i])]

NonEmpty(toks) == SelectSeq(toks, LAMBDA x : x # <<>>)

\* src/app.py:210-218: the key segments of one field.
KeySegments(fn, cell) ==
  LET v == format_date(cell)
  IN IF fn \in MultiFields
     THEN LET ne == NonEmpty(CleanTokens(v))
              norm_vals == IF ne # <<>>
                           THEN [i \in 1..Len(ne) |-> norm(Text(ne[i]))]
                           ELSE <<EMPTY_MARK>>
          IN [i \in 1..Len(norm_vals) |->
                fn \o <<"_">> \o IntStr(i) \o <<":">> \o norm_vals[i]]
     ELSE <<fn \o <<":">> \o norm(Text(v))>>

RECURSIVE KeyParts(_, _, _)
KeyParts(fns, hdrs, row) ==
  IF fns = <<>> THEN <<>>
  ELSE KeySegments(Head(fns), RowGet(hdrs, row, Head(fns), Text(<<>>)))
         \o KeyParts(Tail(fns), hdrs, row)

\* src/app.py:207-219
GroupKey(hdrs, row, recid) ==
  LET key_parts == KeyParts(BIB_KEYS, hdrs, row)
  IN IF key_parts # <<>>
     THEN Join(key_parts, <<"|", "|">>)
     ELSE <<"r", "o", "w", "-">> \o IntStr(recid)

\* src/app.py:224-250
NewGroup(key) ==
  [key |-> key,
   b020 |-> <<>>,
   scalar |-> [f \in ScalarFields |-> None],
   b650 |-> <<>>,
   b700 |-> <<>>,
   b710 |-> <<>>,
   holdings_pairs |-> <<>>]

\* The position of key in the ordered map, 0 when it is not a key of it.
GroupIndex(gs, key) ==
  IF \E i \in 1..Len(gs) : gs[i].key = key
  THEN CHOOSE i \in 1..Len(gs) : gs[i].key = key
  ELSE 0

\* Entries020 with the qualifier attached to every ISBN of the row.
Entries020All(val_020a, val_020c) ==
  IF Truthy(val_020a)
  THEN LET isbns == NonEmpty(CleanTokens(val_020a.s))
       IN [k \in 1..Len(isbns) |-> [a |-> isbns[k], c |-> val_020c]]
  ELSE <<>>

\* src/app.py:253-262: the 020 entries one row adds.
Entries020(val_020a, val_020c) ==
  IF Truthy(val_020a)
  THEN LET isbns == CleanTokens(val_020a.s)
           idxs == SelectSeq([i \in 1..Len(isbns) |-> i],
                             LAMBDA i : isbns[i] # <<>>)
       IN [k \in 1..Len(idxs) |->
             [a |-> isbns[idxs[k]],
              c |-> IF idxs[k] = 1 THEN val_020c ELSE None]]
  ELSE <<>>

\* Entries650 with the k-th non-empty heading paired with the k-th subdivision token.
Entries650Shifted(val_650a, val_650x) ==
  IF Truthy(val_650a)
  THEN LET list_a == NonEmpty(CleanTokens(val_650a.s))
           list_x == IF Truthy(val_650x) THEN CleanTokens(val_650x.s) ELSE <<>>
       IN [k \in 1..Len(list_a) |->
             [a |-> list_a[k],
              x |-> IF k <= Len(list_x) /\ list_x[k] # <<>>
                    THEN Text(list_x[k])
                    ELSE None]]
  ELSE <<>>

\* src/app.py:265-278: the 650 entries one row adds.
Entries650(val_650a, val_650x) ==
  IF Truthy(val_650a)
  THEN LET list_a == CleanTokens(val_650a.s)
           list_x == IF Truthy(val_650x) THEN CleanTokens(val_650x.s) ELSE <<>>
           idxs == SelectSeq([i \in 1..Len(list_a) |-> i],
                             LAMBDA i : list_a[i] # <<>>)
       IN [k \in 1..Len(idxs) |->
             [a |-> list_a[idxs[k]],
              x |-> IF idxs[k] <= Len(list_x) /\ list_x[idxs[k]] # <<>>
                    THEN Text(list_x[idxs[k]])
                    ELSE None]]
  ELSE <<>>

\* src/app.py:282-285: x for x in value.split(MULTI_SPLIT) if x.strip()
Repeatables(val) ==
  IF Truthy(val)
  THEN SelectSeq(Split(val.s, MULTI_SPLIT),
                 LAMBDA x : Strip(x, Whitespace) # <<>>)
  ELSE <<>>

(***************************************************************************)
(* str.split on a value that is no str raises AttributeError            *)
(* (src/app.py:257, 270, 271, 283, 285): nothing in upload_file catches it.*)
(***************************************************************************)
RowRaises(hdrs, row) ==
  LET a020 == RowGet(hdrs, row, F020a, None)
      a650 == RowGet(hdrs, row, F650a, None)
      x650 == RowGet(hdrs, row, F650x, None)
      a700 == RowGet(hdrs, row, F700a, None)
      a710 == RowGet(hdrs, row, F710a, None)
  IN \/ Truthy(a020) /\ a020.t # "str"
     \/ Truthy(a650) /\ (a650.t # "str" \/ (Truthy(x650) /\ x650.t # "str"))
     \/ Truthy(a700) /\ a700.t # "str"
     \/ Truthy(a710) /\ a710.t # "str"

\* InsertGroup with the new key put before those the map holds.
InsertGroupFirst(gs, key) == <<NewGroup(key)>> \o gs

\* src/app.py:223-250: a key not yet in the map is added after those it holds.
InsertGroup(gs, key) == Append(gs, NewGroup(key))

\* src/app.py:222-324: one non-empty row folded into the ordered map.
AddRow(gs, hdrs, row, pairs, key) ==
  LET gs1 == IF GroupIndex(gs, key) = 0 THEN InsertGroup(gs, key) ELSE gs
      i == GroupIndex(gs1, key)
      g == gs1[i]
      g1 ==
        [g EXCEPT
           !.b020 = @ \o Entries020(RowGet(hdrs, row, F020a, None),
                                    RowGet(hdrs, row, F020c, None)),
           !.b650 = @ \o Entries650(RowGet(hdrs, row, F650a, None),
                                    RowGet(hdrs, row, F650x, None)),
           !.b700 = @ \o Repeatables(RowGet(hdrs, row, F700a, None)),
           !.b710 = @ \o Repeatables(RowGet(hdrs, row, F710a, None)),
           !.scalar = [f \in ScalarFields |->
                         first_nonempty(@[f], RowGet(hdrs, row, f, None))],
           !.holdings_pairs = IF pairs # <<>> THEN Append(@, pairs) ELSE @]
  IN [gs1 EXCEPT ![i] = g1]

(***************************************************************************)
(* src/app.py:177-324 as a function of the rows: the map and, for every    *)
(* row, its group's position (0: skipped) after the first k of the rows.   *)
(***************************************************************************)
RECURSIVE RunLoop(_, _, _, _)
RunLoop(hdrs, hcs, rows, k) ==
  IF k = 0 THEN [groups |-> <<>>, member |-> <<>>, recid |-> 1]
  ELSE LET before == RunLoop(hdrs, hcs, rows, k - 1)
           row == rows[k]
           pairs == RowPairs(hcs, row, k = Len(rows), row)
           key == GroupKey(hdrs, row, before.recid)
           gs == AddRow(before.groups, hdrs, row, pairs, key)
       IN IF is_row_empty(row)
          THEN [before EXCEPT !.member = Append(@, 0)]
          ELSE [groups |-> gs,
                member |-> Append(before.member, GroupIndex(gs, key)),
                recid |-> before.recid + 1]

\* ----------------------------------------------------------- deduplicator

\* DictFromKeys with the last occurrence of a value kept instead of the first.
RECURSIVE DictFromKeysLast(_)
DictFromKeysLast(xs) ==
  IF xs = <<>> THEN <<>>
  ELSE LET rest == DictFromKeysLast(Tail(xs))
       IN IF Head(xs) \in Range(rest) THEN rest ELSE <<Head(xs)>> \o rest

\* src/app.py:328-329: list(dict.fromkeys(xs))
RECURSIVE DictFromKeys(_)
DictFromKeys(xs) ==
  IF xs = <<>> THEN <<>>
  ELSE LET init == DictFromKeys(SubSeq(xs, 1, Len(xs) - 1))
           last == xs[Len(xs)]
       IN IF last \in Range(init) THEN init ELSE Append(init, last)

\* Dedup020 with an entry told from another by its ISBN and its qualifier.
Dedup020ByPair(items) == DictFromKeys(items)

\* src/app.py:332-341: the first entry of every ISBN.
RECURSIVE Dedup020(_)
Dedup020(items) ==
  IF items = <<>> THEN <<>>
  ELSE LET init == Dedup020(SubSeq(items, 1, Len(items) - 1))
           last == items[Len(items)]
       IN IF last.a \in {e.a : e \in Range(init)} THEN init
          ELSE Append(init, last)

\* src/app.py:344-352: the first entry of every (a, x) pair.
RECURSIVE Dedup650(_)
Dedup650(items) ==
  IF items = <<>> THEN <<>>
  ELSE LET init == Dedup650(SubSeq(items, 1, Len(items) - 1))
           last == items[Len(items)]
       IN IF <<last.a, last.x>> \in {<<e.a, e.x>> : e \in Range(init)}
          THEN init
          ELSE Append(init, last)

\* src/app.py:327-352, for one group.
DedupGroup(g) ==
  [g EXCEPT !.b700 = DictFromKeys(@),
            !.b710 = DictFromKeys(@),
            !.b020 = Dedup020(@),
            !.b650 = Dedup650(@)]

\* ------------------------------------------------------------- serializer

\* repr() of one character inside a quoted str.
ReprChar(c, quote) ==
  CASE c = "\\" -> <<"\\", "\\">>
    [] c = "\t" -> <<"\\", "t">>
    [] c = "\n" -> <<"\\", "n">>
    [] c = "\r" -> <<"\\", "r">>
    [] c = "\f" -> <<"\\", "x", "0", "c">>
    [] c = "VT" -> <<"\\", "x", "0", "b">>
    [] c = "NUL" -> <<"\\", "x", "0", "0">>
    [] c = NBSP -> <<"\\", "x", "a", "0">>
    [] c = EMSP -> <<"\\", "u", "2", "0", "0", "3">>
    [] c = quote -> <<"\\", c>>
    [] OTHER -> <<c>>

RECURSIVE ReprChars(_, _)
ReprChars(s, quote) ==
  IF s = <<>> THEN <<>>
  ELSE ReprChar(Head(s), quote) \o ReprChars(Tail(s), quote)

\* repr() of a str: double quotes only when it holds ' and no ".
ReprStr(s) ==
  LET quote == IF "'" \in Range(s) /\ ~("\"" \in Range(s)) THEN "\"" ELSE "'"
  IN <<quote>> \o ReprChars(s, quote) \o <<quote>>

\* str() of a 650 entry, the dict {'a': ..., 'x': ...} of src/app.py:278.
DictStr(e) ==
  <<"{", "'", "a", "'", ":", " ">> \o ReprStr(e.a)
    \o <<",", " ", "'", "x", "'", ":", " ">>
    \o (IF e.x.t = "none" THEN <<"N", "o", "n", "e">> ELSE ReprStr(e.x.s))
    \o <<"}">>

\* A dict handed to format_date: neither None nor a datetime, so str() of it.
DictValue(e) == [t |-> "dict", s |-> DictStr(e)]

\* src/app.py:93-97 (and 60-70): the '$' parts of the non-empty subfields.
RECURSIVE SubfieldParts(_)
SubfieldParts(subs) ==
  IF subs = <<>> THEN <<>>
  ELSE LET val_formatted == format_date(Head(subs).val)
       IN (IF val_formatted # <<>>
           THEN <<<<"$", Head(subs).code>> \o val_formatted>>
           ELSE <<>>) \o SubfieldParts(Tail(subs))

\* ''.join(parts)
RECURSIVE Concat(_)
Concat(parts) == IF parts = <<>> THEN <<>> ELSE Head(parts) \o Concat(Tail(parts))

\* f"={tag}  {ind1}{ind2}{''.join(parts)}" with both indicators a backslash
FieldLine(tag, parts) == <<"=">> \o tag \o <<" ", " ", "\\", "\\">> \o Concat(parts)

\* src/app.py:91-100; subs is the dict as its (code, value) items in order.
line_mrk(tag, subs) ==
  LET parts == SubfieldParts(subs)
  IN IF parts = <<>> THEN <<>> ELSE FieldLine(tag, parts)

\* src/app.py:76
subfield_order ==
  <<"p", "d", "o", "e", "g", "0", "1", "2", "4", "5", "7", "f", "t",
    "A", "B", "c", "C", "t", "2", "8", "w", "x", "z", "y", "a", "b">>

\* src/app.py:77-81: for every code of the table, in turn, the parts that start with it.
RECURSIVE SortedParts(_, _)
SortedParts(order, parts) ==
  IF order = <<>> THEN <<>>
  ELSE SelectSeq(parts, LAMBDA part : SubSeq(part, 1, 2) = <<"$", Head(order)>>)
         \o SortedParts(Tail(order), parts)

\* src/app.py:77-86
Sort952(parts) ==
  LET sorted_parts == SortedParts(subfield_order, parts)
      used_parts == Range(sorted_parts)
  IN sorted_parts \o SelectSeq(parts, LAMBDA part : part \notin used_parts)

\* src/app.py:58-89; a pair is [code, val], val a str.
line_mrk_pairs(tag, pairs) ==
  LET parts == SubfieldParts([i \in 1..Len(pairs) |->
                 [code |-> pairs[i].code, val |-> Text(pairs[i].val)]])
  IN IF parts = <<>> THEN <<>>
     ELSE FieldLine(tag, IF tag = <<"9", "5", "2">> THEN Sort952(parts) ELSE parts)

\* src/app.py:110-111
build_ldr ==
  <<"=", "L", "D", "R", " ", " ", "0", "0", "0", "0", "0", "n", "a", "m", " ",
    "a", "2", "2", "0", "0", "0", "0", "0", "I", "a", " ", "4", "5", "0", "0">>

\* datetime.now().strftime("%y%m%d") on the day of the run.
Today == <<"2", "6", "1", "1", "0", "2">>

\* src/app.py:113-115
build_008(lang) ==
  <<"=", "0", "0", "8", " ", " ">> \o Today
    \o <<"s", "9", "9", "9", "9", "|", "|", "|", "|", "x", "x", "\\",
         "|", "|", "|", "|", "|", "|", "|", "|", "|", "|", "|", "|", "|", "|",
         "\\", "|", "|">>
    \o lang \o <<"|", "|">>

\* f"{n:09d}"
Pad9(n) ==
  LET d == IntStr(n)
  IN IF Len(d) >= 9 THEN d ELSE [i \in 1..(9 - Len(d)) |-> "0"] \o d

\* The lines of s that are not '' (if l: record.append(l)).
Kept(ls) == SelectSeq(ls, LAMBDA l : l # <<>>)

\* src/app.py:391-396
Lines020(g) ==
  Kept([i \in 1..Len(g.b020) |->
    line_mrk(<<"0", "2", "0">>,
      <<[code |-> "a", val |-> Text(g.b020[i].a)]>>
        \o (IF Truthy(g.b020[i].c)
            THEN <<[code |-> "c", val |-> g.b020[i].c]>>
            ELSE <<>>))])

\* src/app.py:399-403: the subfields of one tag whose formatted value is not ''.
CleanedSubs(g, f) ==
  LET all == [i \in 1..Len(f.codes) |->
                [code |-> f.codes[i],
                 val |-> Text(format_date(g.scalar[Field(f.tag, f.codes[i])]))]]
  IN SelectSeq(all, LAMBDA sub : sub.val.s # <<>>)

\* src/app.py:398-408
LinesScalar(g) ==
  Kept([i \in 1..Len(FieldTable) |->
    LET cleaned_subs == CleanedSubs(g, FieldTable[i])
    IN IF cleaned_subs # <<>> THEN line_mrk(FieldTable[i].tag, cleaned_subs) ELSE <<>>])

\* src/app.py:410-412: the whole entry is handed over as subfield a.
Lines650(g) ==
  Kept([i \in 1..Len(g.b650) |->
    line_mrk(<<"6", "5", "0">>, <<[code |-> "a", val |-> DictValue(g.b650[i])]>>)])

\* src/app.py:413-418
LinesRepeat(tag, vals) ==
  Kept([i \in 1..Len(vals) |-> line_mrk(tag, <<[code |-> "a", val |-> Text(vals[i])]>>)])

\* src/app.py:420-422
Lines952(g) ==
  Kept([i \in 1..Len(g.holdings_pairs) |->
    line_mrk_pairs(<<"9", "5", "2">>, g.holdings_pairs[i])])

\* src/app.py:362
RecLang(g, lang) ==
  IF Truthy(g.scalar[F041a]) THEN Clean(g.scalar[F041a].s) ELSE lang

\* src/app.py:359-422: the record list of one group.
RecordLines(g, next_001, lang) ==
  <<build_ldr, <<"=", "0", "0", "1", " ", " ">> \o Pad9(next_001),
    build_008(RecLang(g, lang))>>
    \o Lines020(g)
    \o LinesScalar(g)
    \o Lines650(g)
    \o LinesRepeat(<<"7", "0", "0">>, g.b700)
    \o LinesRepeat(<<"7", "1", "0">>, g.b710)
    \o Lines952(g)

\* src/app.py:424-426: what the generator yields for one group.
RecordChunks(g, next_001, lang) ==
  LET record == RecordLines(g, next_001, lang)
  IN [i \in 1..Len(record) |-> record[i] \o <<"\n">>] \o <<<<"\n">>>>

\* ------------------------------------------------------------ upload_file

VARIABLES
  upload,        \* the request: the file's state, the lang form field, the sheet's rows
  pc,            \* where upload_file stands: start, loop, render, done
  headers,       \* column -> cleaned header
  holding_cols,  \* the 952 columns
  row_idx,       \* the data rows consumed so far
  recid,
  groups,        \* the ordered map key -> group, as its values in insertion order
  member,        \* history: for every consumed data row, its group's position (0: skipped)
  next_001,
  chunks,        \* what generate_mrk has yielded so far
  response       \* what the caller receives

vars ==
  <<upload, pc, headers, holding_cols, row_idx, recid, groups, member,
    next_001, chunks, response>>

NoResponse == [status |-> 0, error |-> "", body |-> <<>>]

\* src/app.py:130
Lang == Clean(upload.lang)

\* src/app.py:160: the data rows.
DataRows == Tail(upload.sheet)

Reply(status, error, body) ==
  /\ response' = [status |-> status, error |-> error, body |-> body]
  /\ pc' = "done"

\* src/app.py:133-134
RejectNoFile ==
  /\ pc = "start"
  /\ upload.file = "missing"
  /\ Reply(400, "Upload failed: No file selected.", <<>>)
  /\ UNCHANGED <<upload, headers, holding_cols, row_idx, recid, groups, member,
                 next_001, chunks>>

\* src/app.py:137-138
RejectExtension ==
  /\ pc = "start"
  /\ upload.file = "badext"
  /\ Reply(400, "Only .xlsx files are allowed.", <<>>)
  /\ UNCHANGED <<upload, headers, holding_cols, row_idx, recid, groups, member,
                 next_001, chunks>>

\* src/app.py:140-145
RejectUnreadable ==
  /\ pc = "start"
  /\ upload.file = "unreadable"
  /\ Reply(400, "Error loading file", <<>>)
  /\ UNCHANGED <<upload, headers, holding_cols, row_idx, recid, groups, member,
                 next_001, chunks>>

\* src/app.py:147: not rows or len(rows) < 1, the header row counted.
NoRows(rows) == rows = <<>> \/ Len(rows) < 1

\* src/app.py:147-148
RejectNoRows ==
  /\ pc = "start"
  /\ upload.file = "ok"
  /\ NoRows(upload.sheet)
  /\ Reply(400, "No data rows in Excel file.", <<>>)
  /\ UNCHANGED <<upload, headers, holding_cols, row_idx, recid, groups, member,
                 next_001, chunks>>

\* src/app.py:150-175
ReadSheet ==
  /\ pc = "start"
  /\ upload.file = "ok"
  /\ ~NoRows(upload.sheet)
  /\ headers' = ReadHeaders(upload.sheet[1])
  /\ holding_cols' = HoldingCols(upload.sheet[1])
  /\ pc' = "loop"
  /\ UNCHANGED <<upload, row_idx, recid, groups, member, next_001, chunks, response>>

\* src/app.py:181-182
SkipRow ==
  /\ pc = "loop"
  /\ row_idx < Len(DataRows)
  /\ is_row_empty(DataRows[row_idx + 1])
  /\ row_idx' = row_idx + 1
  /\ member' = Append(member, 0)
  /\ UNCHANGED <<upload, pc, headers, holding_cols, recid, groups, next_001,
                 chunks, response>>

\* src/app.py:177-324: one pass of the loop over a row that is not empty.
AccumulateRow ==
  /\ pc = "loop"
  /\ row_idx < Len(DataRows)
  /\ LET row == DataRows[row_idx + 1]
         is_last_row == row_idx = Len(DataRows) - 1
         direct == upload.sheet[row_idx + 2]
         pairs == RowPairs(holding_cols, row, is_last_row, direct)
         key == GroupKey(headers, row, recid)
     IN /\ ~is_row_empty(row)
        /\ ~RowRaises(headers, row)
        /\ groups' = AddRow(groups, headers, row, pairs, key)
        /\ member' = Append(member, GroupIndex(groups', key))
  /\ row_idx' = row_idx + 1
  /\ recid' = recid + 1
  /\ UNCHANGED <<upload, pc, headers, holding_cols, next_001, chunks, response>>

\* src/app.py:257-285: the AttributeError leaves upload_file; the caller gets a bare 500.
RowError ==
  /\ pc = "loop"
  /\ row_idx < Len(DataRows)
  /\ ~is_row_empty(DataRows[row_idx + 1])
  /\ RowRaises(headers, DataRows[row_idx + 1])
  /\ Reply(500, "Internal Server Error", <<>>)
  /\ UNCHANGED <<upload, headers, holding_cols, row_idx, recid, groups, member,
                 next_001, chunks>>

\* src/app.py:326-357: every row consumed; the groups deduplicated; generate_mrk starts.
Deduplicate ==
  /\ pc = "loop"
  /\ row_idx = Len(DataRows)
  /\ groups' = [i \in 1..Len(groups) |-> DedupGroup(groups[i])]
  /\ next_001' = 1
  /\ pc' = "render"
  /\ UNCHANGED <<upload, headers, holding_cols, row_idx, recid, member, chunks,
                 response>>

\* src/app.py:358-426: generate_mrk renders the next group.
RenderRecord ==
  /\ pc = "render"
  /\ next_001 <= Len(groups)
  /\ chunks' = chunks \o RecordChunks(groups[next_001], next_001, Lang)
  /\ next_001' = next_001 + 1
  /\ UNCHANGED <<upload, pc, headers, holding_cols, row_idx, recid, groups, member,
                 response>>

\* FailureBody of a response that streams the generator: what was yielded is out.
FailureBodyStreamed(yielded) == Concat(yielded)

\* src/app.py:437-439: what the caller gets of the chunks when rendering raised.
FailureBody(yielded) == <<>>

\* src/app.py:431: ''.join(generate_mrk())
DownloadBody(yielded) == Concat(yielded)

\* src/app.py:437-439: an exception raised while a record is rendered.
RenderError ==
  /\ pc = "render"
  /\ next_001 <= Len(groups)
  /\ Reply(500, "Error generating MRK file.", FailureBody(chunks))
  /\ UNCHANGED <<upload, headers, holding_cols, row_idx, recid, groups, member,
                 next_001, chunks>>

\* src/app.py:429-436
Download ==
  /\ pc = "render"
  /\ next_001 > Len(groups)
  /\ Reply(200, "", DownloadBody(chunks))
  /\ UNCHANGED <<upload, headers, holding_cols, row_idx, recid, groups, member,
                 next_001, chunks>>

Next ==
  \/ RejectNoFile
  \/ RejectExtension
  \/ RejectUnreadable
  \/ RejectNoRows
  \/ ReadSheet
  \/ SkipRow
  \/ AccumulateRow
  \/ RowError
  \/ Deduplicate
  \/ RenderRecord
  \/ RenderError
  \/ Download

\* ----------------------------------------------------------------- inputs

\* The most data rows of a sheet.
MaxRows == 3

SeqsUpTo(S, n) == UNION {[1..k -> S] : k \in 0..n}

HeaderRow(hdr) == [i \in 1..Len(hdr) |-> Text(hdr[i])]

Holding(code) == <<"9", "5", "2", "$", code>>

Und == <<"u", "n", "d">>

\* The uploads with header hdr and up to MaxRows data rows drawn from Rows.
Sheets(hdr, Rows) ==
  {[file |-> "ok", lang |-> Und, sheet |-> <<HeaderRow(hdr)>> \o rs] :
     rs \in SeqsUpTo(Rows, MaxRows)}

(***************************************************************************)
(* Uploads every family of inputs holds: the rejected ones, a workbook     *)
(* with no row at all, a row of empty cells, a number in the 020$a column. *)
(***************************************************************************)
CommonUploads ==
  {[file |-> f, lang |-> Und, sheet |-> <<>>] :
     f \in {"missing", "badext", "unreadable", "ok"}}
  \cup
  {[file |-> "ok", lang |-> Und, sheet |-> <<HeaderRow(<<F245a, F020a>>)>> \o rs] :
     rs \in {<<<<None, Text(<<" ">>)>>, <<Text(<<"t">>), Number(<<"5">>)>>>>,
             <<<<Text(<<"t">>), Number(<<"0">>)>>>>}}

InitWith(Uploads) ==
  /\ upload \in Uploads \cup CommonUploads
  /\ pc = "start"
  /\ headers = <<>>
  /\ holding_cols = <<>>
  /\ row_idx = 0
  /\ recid = 1
  /\ groups = <<>>
  /\ member = <<>>
  /\ next_001 = 0
  /\ chunks = <<>>
  /\ response = NoResponse

\* Scalar fields: values of one field that differ in case, blanks and type.
ScalarRows ==
  {<<Text(<<"t">>), b>> :
     b \in {None, Text(<<>>), Text(<<NBSP>>), Text(<<NBSP, NBSP>>),
            Text(<<"s">>), Text(<<"S", " ">>), Number(<<"7">>)}}

Init == InitWith(Sheets(<<F245a, F245b>>, ScalarRows))

Spec == Init /\ [][Next]_vars

\* Key fields: values of 650$a that agree after norm, in two spellings of 245$a.
KeyRows ==
  {<<t, Text(a)>> :
     t \in {Text(<<"t">>), Text(<<"T">>)},
     a \in {<<"a", "|", "b">>, <<"A", "|", "B">>, <<"a", FWBAR, "b">>,
            <<"a", "|", EMSP, "|", "b">>, <<"a", "|", " ", "|", "b">>}}

InitKey == InitWith(Sheets(<<F245a, F650a>>, KeyRows))

SpecKey == InitKey /\ [][Next]_vars

\* Holdings: columns in an order that is not the table's, one code (h) not in the table.
HoldHeader ==
  <<F245a, Holding("y"), Holding("h"), Holding("t"), Holding("c"), Holding("p")>>

HoldRows ==
  {<<Text(<<"t">>), y, h, t, c, p>> :
     <<y, h, t, c, p>> \in
       {<<None, None, None, None, None>>,
        <<Text(<<"K">>), None, None, None, Text(<<"B">>)>>,
        <<None, None, Text(<<"T">>), Text(<<"C">>), None>>,
        <<Text(<<"K">>), Text(<<"H">>), None, None, Text(<<"B">>)>>,
        <<None, None, None, None, Text(<<NBSP>>)>>,
        <<Text(<<"K">>), Text(<<"H">>), Text(<<"T">>), Text(<<"C">>), Text(<<"B">>)>>}}

InitHold == InitWith(Sheets(HoldHeader, HoldRows))

SpecHold == InitHold /\ [][Next]_vars

\* Simple repeatables: repeated tokens within a row and across the rows of a group.
RepeatRows ==
  {<<Text(a), b>> :
     a \in {<<"x", "|", "y", "|", "x">>, <<"x", "|", "y">>, <<"X", "|", "y">>,
            <<" ", "x", "|", "x">>},
     b \in {None, Text(<<"z", "|", "z">>)}}

InitRepeat == InitWith(Sheets(<<F700a, F710a>>, RepeatRows))

SpecRepeat == InitRepeat /\ [][Next]_vars

\* 020: several ISBNs in a cell, an empty first token, with and without a qualifier.
IsbnRows ==
  {<<a, c>> :
     a \in {None,
            Text(<<"1", "1", "1", "-", "2", "|", "2", "2", "2", "-", "3">>),
            Text(<<"|", "2", " ">>)},
     c \in {None, Text(<<"a", "v", "a", "i", "l">>)}}

InitIsbn == InitWith(Sheets(<<F020a, F020c>>, IsbnRows))

SpecIsbn == InitIsbn /\ [][Next]_vars

\* 650: headings with and without subdivisions.
SubjectRows ==
  {<<Text(a), x>> :
     a \in {<<"s", "|", "u">>, <<"s">>},
     x \in {None, Text(<<"d">>), Text(<<"d", "|", "e">>)}}

InitSubject == InitWith(Sheets(<<F650a, F650x>>, SubjectRows))

SpecSubject == InitSubject /\ [][Next]_vars

\* Headers: the 952 header as it is, padded with blanks, in upper case, with two codes.
HoldingHeaders ==
  {Holding("p"), <<" ">> \o Holding("p"), Holding("p") \o <<" ">>,
   Holding("p") \o <<"\n">>, Holding("P"), Holding("p") \o <<"p">>, Holding("-")}

HeaderRows ==
  {<<Text(<<"t">>), None>>, <<Text(<<"t">>), Text(<<"B">>)>>, <<Text(<<"T">>), Text(<<"B">>)>>}

InitHeader == InitWith(UNION {Sheets(<<F245a, h>>, HeaderRows) : h \in HoldingHeaders})

SpecHeader == InitHeader /\ [][Next]_vars

\* Separator: values of 245$a and 245$b that hold '||' and the text of a key segment.
SeparatorRows ==
  {<<Text(<<"x", "|", "|", "2", "4", "5", "$", "b", ":", "y">>), None>>,
   <<Text(<<"x">>), Text(<<"y", "|", "|", "2", "4", "5", "$", "b", ":">>)>>,
   <<Text(<<"x">>), Text(<<"y">>)>>,
   <<Text(<<"X">>), Text(<<"y">>)>>}

InitSeparator == InitWith(Sheets(<<F245a, F245b>>, SeparatorRows))

SpecSeparator == InitSeparator /\ [][Next]_vars

\* 020: the same ISBN twice in a row and in rows of one group, with and without a qualifier.
DupIsbnRows ==
  {<<Text(a), c>> :
     a \in {<<"t", "|", "T">>, <<"T", "|", "t">>, <<"T", "|", "T">>},
     c \in {None, Text(<<"q">>)}}

InitDupIsbn == InitWith(Sheets(<<F020a, F020c>>, DupIsbnRows))

SpecDupIsbn == InitDupIsbn /\ [][Next]_vars

\* 650: an empty heading token between two headings, subdivisions of several lengths.
PairRows ==
  {<<Text(a), x>> :
     a \in {<<"s", "|", "|", "u">>, <<"s", "|", "u">>},
     x \in {None, Text(<<"d", "|", "e", "|", "f">>), Text(<<"d">>), Text(<<"|", "e">>)}}

InitPair == InitWith(Sheets(<<F650a, F650x>>, PairRows))

SpecPair == InitPair /\ [][Next]_vars

\* Language: 041$a values of two and three letters, two request defaults.
LangRows ==
  {<<Text(t), a>> :
     t \in {<<"t">>, <<"u">>},
     a \in {None, Text(<<"e", "n">>), Text(<<"e", "n", "g">>)}}

LangUploads ==
  {[file |-> "ok", lang |-> l, sheet |-> <<HeaderRow(<<F245a, F041a>>)>> \o rs] :
     l \in {Und, <<"e", "n", "g", "l", "i", "s", "h">>},
     rs \in SeqsUpTo(LangRows, MaxRows)}

InitLang == InitWith(LangUploads)

SpecLang == InitLang /\ [][Next]_vars

\* Cell types: a number or a date/time in one of the columns that are split.
TypedRows ==
  {<<Text(<<"1">>), Text(<<"s">>), Text(<<"d">>), Text(<<"x">>)>>,
   <<Number(<<"5">>), None, None, None>>,
   <<Number(<<"0">>), Text(<<"s">>), None, None>>,
   <<None, Number(<<"5">>), None, None>>,
   <<None, Text(<<"s">>), Number(<<"5">>), None>>,
   <<None, None, Number(<<"5">>), None>>,
   <<None, None, None, Number(<<"5">>)>>,
   <<None, None, None, DateTime(<<"2", "0", "2", "0", "-", "0", "1", "-", "0", "2">>)>>}

InitTyped == InitWith(Sheets(<<F020a, F650a, F650x, F700a>>, TypedRows))

SpecTyped == InitTyped /\ [][Next]_vars

\* ----------------------------------------------------------------- claims

\* The consumed data rows that were folded into the group at position i, in input order.
RowsOf(i) == SelectSeq([r \in 1..Len(member) |-> r], LAMBDA r : member[r] = i)

\* The formatted value of field f in data row r.
Formatted(r, f) == format_date(RowGet(headers, DataRows[r], f, None))

\* The formatted values of field f that the rows of group i supplied, in input order.
Supplied(i, f) == [k \in 1..Len(RowsOf(i)) |-> Formatted(RowsOf(i)[k], f)]

(***************************************************************************)
(* C2: for every group and every scalar subfield, the stored value is the  *)
(* formatted value of the first row of the group, in input order, whose    *)
(* formatted value is not empty, whatever the later rows hold; it is empty *)
(* only when every row's value is empty.                                   *)
(***************************************************************************)
C2_ScalarFirstNonEmpty ==
  \A i \in 1..Len(groups) : \A f \in ScalarFields :
    LET given == NonEmpty(Supplied(i, f))
        stored == groups[i].scalar[f]
    IN IF given = <<>>
       THEN stored \in {None, Text(<<>>)}
       ELSE stored = Text(given[1])

\* C2's case: a group whose rows supplied '', then ' ', then '  ' keeps ' '.
C2_Witness ==
  \E i \in 1..Len(groups) :
    /\ Supplied(i, F245b) = <<<<>>, <<" ">>, <<" ", " ">>>>
    /\ groups[i].scalar[F245b] = Text(<<" ">>)

(***************************************************************************)
(* C6: a sheet with a header row and no data row after it ends in the      *)
(* "No data rows" error response, never in a download.                     *)
(***************************************************************************)
C6_HeaderOnlyRejected ==
  (pc = "done" /\ upload.file = "ok" /\ Len(upload.sheet) = 1)
    => (response.status = 400 /\ response.error = "No data rows in Excel file.")

\* Whether data row r is consumed by the accumulator (it is not empty).
Counted(r) == ~is_row_empty(DataRows[r])

KeyOf(r) == GroupKey(ReadHeaders(upload.sheet[1]), DataRows[r], 1)

\* The data rows that are the first of their key, in input order.
FirstRows ==
  SelectSeq([r \in 1..Len(DataRows) |-> r],
            LAMBDA r : Counted(r) /\ \A q \in 1..(r - 1) :
                         Counted(q) => KeyOf(q) # KeyOf(r))

\* k as nine decimal digits.
NineDigits(k) == [i \in 1..9 |-> Digits[((k \div (10 ^ (9 - i))) % 10) + 1]]

\* The yielded chunks record by record: a record ends with the chunk "\n".
YieldedRecords == Split(chunks, <<"\n">>)

(***************************************************************************)
(* C7: the k-th record of a download is the record of the k-th key first   *)
(* seen in the input, and its =001 line carries k as nine digits.          *)
(***************************************************************************)
C7_FirstSeenOrder ==
  response.status = 200 =>
    /\ response.body = Concat(chunks)
    /\ Len(YieldedRecords) = Len(FirstRows) + 1
    /\ \A k \in 1..Len(FirstRows) :
         LET g == groups[GroupIndex(groups, KeyOf(FirstRows[k]))]
         IN /\ YieldedRecords[k] \o <<<<"\n">>>> = RecordChunks(g, k, Lang)
            /\ YieldedRecords[k][2]
                 = <<"=", "0", "0", "1", " ", " ">> \o NineDigits(k) \o <<"\n">>

\* The characters of a key in code point order.
CodeOrder ==
  <<" ", "$">> \o Digits \o <<":">> \o UpperLetters \o <<"_">> \o LowerLetters
    \o <<"|">>

Rank(c) == CHOOSE i \in 1..Len(CodeOrder) : CodeOrder[i] = c

\* a sorts before b.
KeyLess(a, b) ==
  \E i \in 1..Len(b) :
    /\ \A j \in 1..(i - 1) : j <= Len(a) /\ a[j] = b[j]
    /\ i <= Len(a) => Rank(a[i]) < Rank(b[i])
    /\ i > Len(a) => i = Len(a) + 1

\* C7's case: a download whose records are not in the order of their keys.
C7_Witness ==
  /\ response.status = 200
  /\ \E i \in 1..Len(groups) : \E j \in (i + 1)..Len(groups) :
       KeyLess(groups[j].key, groups[i].key)

(***************************************************************************)
(* C9: a response that is not a download carries no record line, the       *)
(* failure of generate_mrk included; a download carries the complete       *)
(* record of every group, blank line included.                             *)
(***************************************************************************)
C9_AllOrNothing ==
  /\ response.status # 200 => response.body = <<>>
  /\ response.status = 200 =>
       response.body =
         Concat(Concat([k \in 1..Len(groups) |-> RecordChunks(groups[k], k, Lang)]))

\* C9's case: generate_mrk fails after it has yielded the lines of a record.
C9_Witness ==
  /\ response.status = 500
  /\ response.error = "Error generating MRK file."
  /\ chunks # <<>>

\* The permutations of 1..n.
Perms(n) == {p \in [1..n -> 1..n] : \A a, b \in 1..n : p[a] = p[b] => a = b}

\* Data rows q and r hold the same BIB_KEYS values after format_date and norm.
SameKeyValues(q, r) ==
  \A i \in 1..Len(BIB_KEYS) :
    norm(Text(Formatted(q, BIB_KEYS[i]))) = norm(Text(Formatted(r, BIB_KEYS[i])))

\* Rows that hold the same key values after format_date and norm share a group.
C1_EqualValuesShareGroup ==
  \A q, r \in 1..Len(member) :
    (member[q] # 0 /\ member[r] # 0 /\ SameKeyValues(q, r)) => member[q] = member[r]

\* Whatever the order of the rows, the same rows share a group.
C1_OrderFree ==
  pc = "render" =>
    \A p \in Perms(Len(DataRows)) :
      LET permuted == [a \in 1..Len(DataRows) |-> DataRows[p[a]]]
          there == RunLoop(headers, holding_cols, permuted, Len(permuted)).member
      IN \A a, b \in 1..Len(DataRows) :
           (there[a] # 0 /\ there[a] = there[b])
             <=> (member[p[a]] # 0 /\ member[p[a]] = member[p[b]])

(***************************************************************************)
(* C1: two rows share a group in the run over any permutation of the rows  *)
(* exactly when they do in the run over the rows as given, and two rows    *)
(* whose BIB_KEYS values are equal after format_date and norm always       *)
(* share a group.                                                          *)
(***************************************************************************)
C1_Grouping == C1_OrderFree /\ C1_EqualValuesShareGroup

\* Data row r holds a holdings cell whose formatted value is not empty.
YieldsHoldings(r) ==
  \E h \in 1..Len(holding_cols) :
    format_date(RowCell(DataRows[r], holding_cols[h].col)) # <<>>

\* The chunks of s that are lines of the tag.
LinesOf(tag, s) == SelectSeq(s, LAMBDA l : Len(l) >= 4 /\ SubSeq(l, 1, 4) = <<"=">> \o tag)

(***************************************************************************)
(* C3: in a download, every group stores one holdings item per row of the  *)
(* group that yielded a non-empty holdings value, and its record holds one *)
(* 952 line per stored item.                                               *)
(***************************************************************************)
C3_OneLinePerHoldingsRow ==
  response.status = 200 =>
    \A i \in 1..Len(groups) :
      /\ Len(groups[i].holdings_pairs)
           = Cardinality({r \in Range(RowsOf(i)) : YieldsHoldings(r)})
      /\ Len(LinesOf(<<"9", "5", "2">>, YieldedRecords[i]))
           = Len(groups[i].holdings_pairs)

\* The '$' parts of the pairs of an item whose value is not empty when rendered.
ItemParts(pairs) ==
  LET shown == SelectSeq(pairs, LAMBDA q : format_text(q.val) # <<>>)
  IN [j \in 1..Len(shown) |-> <<"$", shown[j].code>> \o format_text(shown[j].val)]

\* The codes of the precedence table, each at its first place.
Precedence == DictFromKeys(subfield_order)

\* parts in the table's order; the parts whose code the table lacks follow as met.
RECURSIVE ByPrecedence(_, _)
ByPrecedence(order, parts) ==
  IF order = <<>>
  THEN SelectSeq(parts, LAMBDA q : q[2] \notin Range(Precedence))
  ELSE SelectSeq(parts, LAMBDA q : q[2] = Head(order))
         \o ByPrecedence(Tail(order), parts)

\* The 952 line the claim describes for an item, <<>> when no subfield shows.
Ordered952(pairs) ==
  IF ItemParts(pairs) = <<>> THEN <<>>
  ELSE <<"=", "9", "5", "2", " ", " ", "\\", "\\">>
         \o Concat(ByPrecedence(Precedence, ItemParts(pairs)))

(***************************************************************************)
(* C8: every rendered 952 line holds the item's subfields whose codes are  *)
(* in the precedence table in the table's order, then the subfields whose  *)
(* codes are not in it in the order they were met.                         *)
(***************************************************************************)
C8_TableOrder ==
  response.status = 200 =>
    \A i \in 1..Len(groups) :
      LinesOf(<<"9", "5", "2">>, YieldedRecords[i])
        = LET want == Kept([j \in 1..Len(groups[i].holdings_pairs) |->
                              Ordered952(groups[i].holdings_pairs[j])])
          IN [j \in 1..Len(want) |-> want[j] \o <<"\n">>]

\* The groups are deduplicated: the loop over the rows has ended.
Finished == next_001 > 0

\* The tokens the rows of group i appended for repeatable field f, in order.
Accumulated(i, f) ==
  Concat([k \in 1..Len(RowsOf(i)) |->
            Repeatables(RowGet(headers, DataRows[RowsOf(i)[k]], f, None))])

\* The place of the first occurrence of v in xs.
FirstAt(xs, v) == CHOOSE a \in 1..Len(xs) : xs[a] = v /\ \A b \in 1..(a - 1) : xs[b] # v

\* out holds every value of xs once, in the order of the first occurrences in xs.
FirstOccurrences(out, xs) ==
  /\ Range(out) = Range(xs)
  /\ \A a, b \in 1..Len(out) :
       a < b => out[a] # out[b] /\ FirstAt(xs, out[a]) < FirstAt(xs, out[b])

(***************************************************************************)
(* C4: the 700 and 710 lists of a finished group hold every accumulated    *)
(* value exactly once, in the order of the values' first occurrences.      *)
(***************************************************************************)
C4_DedupKeepsFirst ==
  Finished =>
    \A i \in 1..Len(groups) :
      /\ FirstOccurrences(groups[i].b700, Accumulated(i, F700a))
      /\ FirstOccurrences(groups[i].b710, Accumulated(i, F710a))

\* C4's case: a group that accumulated x, y, x and z, z.
C4_Witness ==
  /\ Finished
  /\ \E i \in 1..Len(groups) :
       /\ Accumulated(i, F700a) = <<<<"x">>, <<"y">>, <<"x">>>>
       /\ groups[i].b700 = <<<<"x">>, <<"y">>>>
       /\ Accumulated(i, F710a) = <<<<"z">>, <<"z">>>>
       /\ groups[i].b710 = <<<<"z">>>>

\* The 020 entries the claim describes for a row with ISBN cell a and qualifier cell c.
Wanted020(a, c) ==
  IF ~Truthy(a) THEN <<>>
  ELSE LET toks == CleanTokens(a.s)
           at == SelectSeq([n \in 1..Len(toks) |-> n], LAMBDA n : toks[n] # <<>>)
       IN [k \in 1..Len(at) |->
             IF at[k] = 1
             THEN [a |-> toks[1], c |-> c]
             ELSE [a |-> toks[at[k]], c |-> None]]

(***************************************************************************)
(* C5: every row adds one 020 entry per non-empty token of its 020$a       *)
(* value; the entry of the token at index 0 carries the row's 020$c and    *)
(* the entries of the later tokens carry no qualifier.                     *)
(***************************************************************************)
C5_QualifierOnFirstToken ==
  ~Finished =>
    \A i \in 1..Len(groups) :
      groups[i].b020 =
        Concat([k \in 1..Len(RowsOf(i)) |->
                  Wanted020(RowGet(headers, DataRows[RowsOf(i)[k]], F020a, None),
                            RowGet(headers, DataRows[RowsOf(i)[k]], F020c, None))])

\* C5's case: "111-2|222-3" with qualifier "avail".
C5_Witness ==
  \E i \in 1..Len(groups) :
    /\ ~Finished
    /\ groups[i].b020 =
         <<[a |-> <<"1", "1", "1", "-", "2">>, c |-> Text(<<"a", "v", "a", "i", "l">>)],
           [a |-> <<"2", "2", "2", "-", "3">>, c |-> None]>>

\* The 650 line the claim describes for an entry: $a the heading, $x the subdivision.
Wanted650(e) ==
  line_mrk(<<"6", "5", "0">>,
           <<[code |-> "a", val |-> Text(e.a)], [code |-> "x", val |-> e.x]>>)

(***************************************************************************)
(* C10: the record of a finished group holds one 650 line per paired       *)
(* entry, in the entries' order after deduplication, with the heading in   *)
(* $a and the subdivision, when there is one, in $x.                       *)
(***************************************************************************)
C10_SubjectLines ==
  response.status = 200 =>
    \A i \in 1..Len(groups) :
      LinesOf(<<"6", "5", "0">>, YieldedRecords[i])
        = LET want == Kept([j \in 1..Len(groups[i].b650) |-> Wanted650(groups[i].b650[j])])
          IN [j \in 1..Len(want) |-> want[j] \o <<"\n">>]

\* The tokens the claim describes for a repeatable cell: non-empty, trimmed.
TrimmedTokens(val) ==
  IF ~Truthy(val) THEN <<>>
  ELSE LET toks == Split(val.s, MULTI_SPLIT)
       IN NonEmpty([n \in 1..Len(toks) |-> Strip(toks[n], Whitespace)])

\* The trimmed tokens of the rows of group i for field f, row by row.
TrimmedOf(i, f) ==
  Concat([k \in 1..Len(RowsOf(i)) |->
            TrimmedTokens(RowGet(headers, DataRows[RowsOf(i)[k]], f, None))])

\* No value occurs twice in s.
Distinct(s) == \A a, b \in 1..Len(s) : a # b => s[a] # s[b]

(***************************************************************************)
(* C11: the 700 and 710 lists of a group hold the non-empty trimmed tokens *)
(* of its rows in row-then-token order, and tokens that differ only in     *)
(* surrounding whitespace give a single output line.                       *)
(***************************************************************************)
C11_TrimmedTokens ==
  /\ ~Finished =>
       \A i \in 1..Len(groups) :
         /\ groups[i].b700 = TrimmedOf(i, F700a)
         /\ groups[i].b710 = TrimmedOf(i, F710a)
  /\ response.status = 200 =>
       \A i \in 1..Len(groups) :
         /\ Distinct(LinesOf(<<"7", "0", "0">>, YieldedRecords[i]))
         /\ Distinct(LinesOf(<<"7", "1", "0">>, YieldedRecords[i]))

\* A cleaned header is '952$' followed by exactly one letter or digit.
HoldingHeader(clean) ==
  /\ Len(clean) = 5
  /\ SubSeq(clean, 1, 4) = <<"9", "5", "2", "$">>
  /\ clean[5] \in AlNum

(***************************************************************************)
(* C12: the holdings columns are exactly the columns whose cleaned header  *)
(* is '952$' and one letter or digit, each with that character, in the     *)
(* case it is written in, as its subfield code.                            *)
(***************************************************************************)
C12_HoldingColumns ==
  LET cols == SelectSeq([c \in 1..Len(headers) |-> c],
                        LAMBDA c : HoldingHeader(headers[c]))
  IN holding_cols = [k \in 1..Len(cols) |-> [col |-> cols[k], code |-> headers[cols[k]][5]]]

\* sub occurs in s.
Contains(s, sub) ==
  \E a \in 1..(Len(s) - Len(sub) + 1) : SubSeq(s, a, a + Len(sub) - 1) = sub

(***************************************************************************)
(* C13: no key segment of a consumed row holds the separator '||' that     *)
(* joins the segments.                                                     *)
(***************************************************************************)
C13_SeparatorFree ==
  \A r \in 1..Len(member) :
    member[r] # 0 =>
      LET key_parts == KeyParts(BIB_KEYS, headers, DataRows[r])
      IN \A k \in 1..Len(key_parts) : ~Contains(key_parts[k], <<"|", "|">>)

\* The normalized value of key field f in data row r: token by token for the
\* multi-valued fields, the whole value for the others.
NormValue(r, f) ==
  IF f \in MultiFields
  THEN LET toks == NonEmpty(CleanTokens(Formatted(r, f)))
       IN [n \in 1..Len(toks) |-> norm(Text(toks[n]))]
  ELSE <<norm(Text(Formatted(r, f)))>>

(***************************************************************************)
(* C19: two rows that share a group agree on every BIB_KEYS value after    *)
(* normalization.                                                          *)
(***************************************************************************)
C19_KeyInjective ==
  \A q, r \in 1..Len(member) :
    (member[q] # 0 /\ member[q] = member[r]) =>
      \A i \in 1..Len(BIB_KEYS) : NormValue(q, BIB_KEYS[i]) = NormValue(r, BIB_KEYS[i])

\* The 020 entries the rows of group i appended, in order.
Accumulated020(i) ==
  Concat([k \in 1..Len(RowsOf(i)) |->
            Entries020(RowGet(headers, DataRows[RowsOf(i)[k]], F020a, None),
                       RowGet(headers, DataRows[RowsOf(i)[k]], F020c, None))])

\* The place of the first entry of xs with ISBN a.
FirstIsbnAt(xs, a) ==
  CHOOSE j \in 1..Len(xs) : xs[j].a = a /\ \A b \in 1..(j - 1) : xs[b].a # a

(***************************************************************************)
(* C14: the 020 list of a finished group holds, for every ISBN that was    *)
(* accumulated, exactly the first accumulated entry with that ISBN,        *)
(* unchanged, in the order of the first occurrences.                       *)
(***************************************************************************)
C14_DedupByIsbn ==
  Finished =>
    \A i \in 1..Len(groups) :
      LET out == groups[i].b020
          acc == Accumulated020(i)
      IN /\ {e.a : e \in Range(out)} = {e.a : e \in Range(acc)}
         /\ \A k \in 1..Len(out) : out[k] = acc[FirstIsbnAt(acc, out[k].a)]
         /\ \A j, k \in 1..Len(out) :
              j < k => FirstIsbnAt(acc, out[j].a) < FirstIsbnAt(acc, out[k].a)

\* C14's case: a later entry with a qualifier is dropped for an earlier one without.
C14_Witness ==
  /\ Finished
  /\ \E i \in 1..Len(groups) :
       LET acc == Accumulated020(i)
       IN \E j, k \in 1..Len(acc) :
            /\ j < k
            /\ acc[j].a = acc[k].a
            /\ acc[j].c = None
            /\ acc[k].c # None
            /\ acc[j] \in Range(groups[i].b020)
            /\ acc[k] \notin Range(groups[i].b020)

\* The 650 entries the claim describes for a row with heading cell a and subdivision cell x.
WantedPairs(a, x) ==
  IF ~Truthy(a) THEN <<>>
  ELSE LET primary == CleanTokens(a.s)
           secondary == IF Truthy(x) THEN CleanTokens(x.s) ELSE <<>>
           at == SelectSeq([n \in 1..Len(primary) |-> n], LAMBDA n : primary[n] # <<>>)
       IN [k \in 1..Len(at) |->
             [a |-> primary[at[k]],
              x |-> IF at[k] \in DOMAIN secondary /\ secondary[at[k]] # <<>>
                    THEN Text(secondary[at[k]])
                    ELSE None]]

(***************************************************************************)
(* C15: every row adds one 650 entry per index whose 650$a token is not    *)
(* empty, with the 650$x token of the same index as its subdivision when   *)
(* that token exists and is not empty, and no subdivision otherwise.       *)
(***************************************************************************)
C15_PairedByIndex ==
  ~Finished =>
    \A i \in 1..Len(groups) :
      groups[i].b650 =
        Concat([k \in 1..Len(RowsOf(i)) |->
                  WantedPairs(RowGet(headers, DataRows[RowsOf(i)[k]], F650a, None),
                              RowGet(headers, DataRows[RowsOf(i)[k]], F650x, None))])

\* C15's case: 's||u' with 'd|e|f' gives (s, d) and (u, f); e is not moved to u.
C15_Witness ==
  /\ ~Finished
  /\ \E i \in 1..Len(groups) :
       groups[i].b650 = <<[a |-> <<"s">>, x |-> Text(<<"d">>)],
                          [a |-> <<"u">>, x |-> Text(<<"f">>)]>>

(***************************************************************************)
(* C16: the =008 lines of the records generate_mrk yields all have one     *)
(* length, whichever language code each of them carries.                   *)
(***************************************************************************)
C16_FixedLength008 ==
  \A l1, l2 \in Range(LinesOf(<<"0", "0", "8">>, chunks)) : Len(l1) = Len(l2)

(***************************************************************************)
(* C17: when upload_file has answered for a sheet with a header row, every *)
(* data row was consumed and every non-empty one was folded into a group,  *)
(* whatever the types of its cells.                                        *)
(***************************************************************************)
C17_RowsNeverRaise ==
  (pc = "done" /\ upload.file = "ok" /\ upload.sheet # <<>>) =>
    /\ Len(member) = Len(DataRows)
    /\ \A r \in 1..Len(DataRows) : Counted(r) => member[r] # 0

\* The '$' part of a stored holdings pair.
PairPart(q) == <<"$", q.code>> \o q.val

\* line is a 952 line that holds every pair of the item exactly once, in some order.
EachPairOnce(line, pairs) ==
  \E p \in Perms(Len(pairs)) :
    line = <<"=", "9", "5", "2", " ", " ", "\\", "\\">>
             \o Concat([k \in 1..Len(pairs) |-> PairPart(pairs[p[k]])]) \o <<"\n">>

(***************************************************************************)
(* C18: the record of a group holds one 952 line per stored holdings item, *)
(* and the line holds every (code, value) pair of the item exactly once.   *)
(***************************************************************************)
C18_EachPairOnce ==
  response.status = 200 =>
    \A i \in 1..Len(groups) :
      LET lines == LinesOf(<<"9", "5", "2">>, YieldedRecords[i])
          items == groups[i].holdings_pairs
      IN /\ Len(lines) = Len(items)
         /\ \A j \in 1..Len(items) : EachPairOnce(lines[j], items[j])

(***************************************************************************)
(* C20: a value stored formatted, by first_nonempty or by the holdings     *)
(* pass, is left as it is by format_date when it is formatted again to be  *)
(* rendered: format_date(format_date(v)) = format_date(v).                 *)
(***************************************************************************)
C20_FormatIdempotent ==
  \A i \in 1..Len(groups) :
    /\ \A f \in ScalarFields :
         groups[i].scalar[f].t = "str" =>
           format_date(groups[i].scalar[f]) = groups[i].scalar[f].s
    /\ \A j \in 1..Len(groups[i].holdings_pairs) :
         \A k \in 1..Len(groups[i].holdings_pairs[j]) :
           format_date(Text(groups[i].holdings_pairs[j][k].val))
             = groups[i].holdings_pairs[j][k].val

====
